---- MODULE Spec2Model ----
(***************************************************************************)
(* Duplicate-certificate grouping engine of Rf-Duplicator, both scripts:   *)
(*   cert_duplicate_identifier_memory_scalable.py   (disk-resident,  d_)   *)
(*   cert_duplicate_identifier_runtime_optimized.py (memory-resident, m_)  *)
(*                                                                         *)
(* Files are sequences of byte tokens.  A token is one byte, except that   *)
(* a token holding a run of ASCII text (a JSON member, a constant of the   *)
(* output format) stands for that text: every read of the code that        *)
(* splits a line does so at a character boundary, and the only characters  *)
(* that are longer than one byte are modelled byte by byte (C3 A9).        *)
(* Offsets and lengths are counted in tokens.                              *)
(***************************************************************************)
EXTENDS Integers, Sequences, FiniteSets, TLC

\* Largest number of lines of the input file.
MaxLines == 4

\* Largest number of lines of an input file made of few kinds of lines.
MaxLongLines == 5

\* Largest number of process_data calls made on one engine object.
MaxCalls == 2

-----------------------------------------------------------------------------
(* Bytes *)

LF == "\n"
OpenBrace == "{"
CloseBrace == "}"
\* The two bytes of one two-byte UTF-8 character.
MbLead == "C3"
MbCont == "A9"

TAG_NEW == "NW"
TAG_EXISTING == "EX"
JSONLINE_EXTENSION == ".jsonline"

\* The member "data": {"leaf_cert": {"fingerprint": v}} of a line, per value v.
KeyA == "\"data\":{\"leaf_cert\":{\"fingerprint\":\"A\"}}"
KeyB == "\"data\":{\"leaf_cert\":{\"fingerprint\":\"B\"}}"
KeyQuote == "\"data\":{\"leaf_cert\":{\"fingerprint\":\"a\\\"b\"}}"
KeyNumber == "\"data\":{\"leaf_cert\":{\"fingerprint\":7}}"
KeyObject == "\"data\":{\"leaf_cert\":{\"fingerprint\":{}}}"
Keys == {KeyA, KeyB, KeyQuote, KeyNumber, KeyObject}

\* What ijson yields for the value at data.leaf_cert.fingerprint: its Python
\* type and the text '%s' formats it to.
FingerprintValue(key) ==
    CASE key = KeyA -> [type |-> "str", text |-> <<"A">>]
      [] key = KeyB -> [type |-> "str", text |-> <<"B">>]
      [] key = KeyQuote -> [type |-> "str", text |-> <<"a", "\"", "b">>]
      [] key = KeyNumber -> [type |-> "int", text |-> <<"7">>]
      [] key = KeyObject -> [type |-> "dict", text |-> <<"{", "}">>]

\* Python's hash(): a dict (or list) key raises TypeError.
Hashable(v) == v.type # "dict"

\* The lines an input file is made of, without their terminator.
LineKinds ==
    { <<OpenBrace, KeyA, CloseBrace>>,
      <<OpenBrace, KeyA, MbLead, MbCont, CloseBrace>>,
      <<OpenBrace, KeyB, CloseBrace>>,
      <<OpenBrace, KeyQuote, CloseBrace>>,
      <<OpenBrace, KeyNumber, CloseBrace>>,
      <<OpenBrace, KeyObject, CloseBrace>>,
      <<OpenBrace, CloseBrace>>,
      <<OpenBrace>> }

RECURSIVE Concat(_, _)
\* The file made of lines, each but perhaps the last followed by LF.
Concat(lines, lastTerminated) ==
    IF lines = <<>> THEN <<>>
    ELSE IF Len(lines) = 1
         THEN Head(lines) \o (IF lastTerminated THEN <<LF>> ELSE <<>>)
         ELSE Head(lines) \o <<LF>> \o Concat(Tail(lines), lastTerminated)

InputFiles ==
    { Concat(ls, t) : ls \in UNION { [1..n -> LineKinds] : n \in 0..MaxLines },
                      t \in BOOLEAN }

-----------------------------------------------------------------------------
(* File objects *)

Min(S) == CHOOSE x \in S : \A y \in S : x <= y

\* A readline that gives a line only when it finds its terminator.
ReadLine_TerminatedOnly(bytes, start) ==
    IF start >= Len(bytes) THEN <<>>
    ELSE LET nl == { i \in (start + 1)..Len(bytes) : bytes[i] = LF }
         IN  IF nl = {} THEN <<>> ELSE SubSeq(bytes, start + 1, Min(nl))

\* fp.readline() of a binary file at offset start: up to and including the
\* next LF, or to the end of the file; empty at the end of the file.
ReadLine(bytes, start) ==
    IF start >= Len(bytes) THEN <<>>
    ELSE LET nl == { i \in (start + 1)..Len(bytes) : bytes[i] = LF }
             end == IF nl = {} THEN Len(bytes) ELSE Min(nl)
         IN  SubSeq(bytes, start + 1, end)

\* Bytes of the character that starts with byte b.
CharWidth(b) == IF b = MbLead THEN 2 ELSE 1

RECURSIVE TextRead(_, _, _)
\* open(mode='r'); seek(offset); read(n): a text file reads n CHARACTERS
\* (or to the end of the file), decoded from the byte at offset.
TextRead(bytes, offset, n) ==
    IF n <= 0 \/ offset >= Len(bytes) THEN <<>>
    ELSE LET w == CharWidth(bytes[offset + 1])
         IN  SubSeq(bytes, offset + 1, offset + w)
                 \o TextRead(bytes, offset + w, n - 1)

Whitespace == {LF, " ", "\t", "\r"}

RECURSIVE RStrip(_)
\* str.rstrip(): without its trailing whitespace.
RStrip(s) ==
    IF s # <<>> /\ s[Len(s)] \in Whitespace
    THEN RStrip(SubSeq(s, 1, Len(s) - 1))
    ELSE s

RECURSIVE RStripComma(_)
\* str.rstrip(','): without its trailing commas.
RStripComma(s) ==
    IF s # <<>> /\ s[Len(s)] = ","
    THEN RStripComma(SubSeq(s, 1, Len(s) - 1))
    ELSE s

\* The write made at the end of the file, without the seek.
Overwrite_AtEnd(bytes, pos, data) == bytes \o data

\* The write on a file opened 'w': what was there is gone, and the seek
\* leaves NUL bytes up to pos.
Overwrite_Truncated(bytes, pos, data) == [i \in 1..pos |-> "NUL"] \o data

\* seek(pos); write(data) on a file opened 'r+': data replaces the bytes from
\* pos on, and what lies beyond pos + Len(data) stays.
Overwrite(bytes, pos, data) ==
    SubSeq(bytes, 1, pos) \o data \o SubSeq(bytes, pos + Len(data) + 1, Len(bytes))

-----------------------------------------------------------------------------
(* Paths and the file system.  A path is a sequence of components, a       *)
(* component a sequence of text pieces: output/1.jsonline is               *)
(* << <<"output">>, <<"1", ".jsonline">> >>.  A file system is the set of  *)
(* its directories and the contents of its files.                          *)

Dir(name) == << <<name>> >>

\* The path made without the file's name.
get_file_path_NoName(directory, filename, extension) ==
    directory \o << <<extension>> >>

\* directory + "/" + filename + extension
get_file_path(directory, filename, extension) ==
    directory \o SubSeq(filename, 1, Len(filename) - 1)
              \o << filename[Len(filename)] \o <<extension>> >>

Parent(p) == SubSeq(p, 1, Len(p) - 1)
Under(p, d) == Len(p) >= Len(d) /\ SubSeq(p, 1, Len(d)) = d
PathExists(fs, p) == p \in fs.dirs \/ p \in DOMAIN fs.files
\* A new entry can be made at p: its parent is the working directory or exists.
CanCreate(fs, p) == Parent(p) = <<>> \/ Parent(p) \in fs.dirs

EmptyFs == [dirs |-> {}, files |-> <<>>]

\* shutil.rmtree(directory)
RmTree(fs, directory) ==
    [dirs |-> { p \in fs.dirs : ~Under(p, directory) },
     files |-> [p \in { q \in DOMAIN fs.files : ~Under(q, directory) } |-> fs.files[p]]]

\* os.mkdir(directory); ok is FALSE when it raises FileNotFoundError.
MkDir(fs, directory) ==
    IF CanCreate(fs, directory)
    THEN [ok |-> TRUE, fs |-> [fs EXCEPT !.dirs = @ \cup {directory}]]
    ELSE [ok |-> FALSE, fs |-> fs]

clean_and_create_directory(fs, directory) ==
    IF ~PathExists(fs, directory) THEN MkDir(fs, directory)
    ELSE MkDir(RmTree(fs, directory), directory)

clean_directory(fs, directory) ==
    IF PathExists(fs, directory) THEN RmTree(fs, directory) ELSE fs

\* The file made only when there is something to write.
WriteFile_SkipEmpty(fs, path, data) ==
    IF data = <<>> THEN fs
    ELSE [fs EXCEPT !.files = [p \in DOMAIN fs.files \cup {path} |->
                                   IF p = path THEN data ELSE fs.files[p]]]

\* open(path, 'w') ... write(data): the file holds exactly data.
WriteFile(fs, path, data) ==
    [fs EXCEPT !.files = [p \in DOMAIN fs.files \cup {path} |->
                              IF p = path THEN data ELSE fs.files[p]]]

-----------------------------------------------------------------------------
(* Fingerprint extraction *)

RECURSIVE IsMembers(_)
\* The bytes of further members of a line's object: whole characters.
IsMembers(s) ==
    \/ s = <<>>
    \/ /\ Len(s) >= 2 /\ s[1] = MbLead /\ s[2] = MbCont
       /\ IsMembers(SubSeq(s, 3, Len(s)))

\* The text is one JSON object: { [key] members }.
IsJsonObject(text) ==
    /\ Len(text) >= 2
    /\ text[1] = OpenBrace
    /\ text[Len(text)] = CloseBrace
    /\ LET inner == SubSeq(text, 2, Len(text) - 1)
       IN  IF inner # <<>> /\ inner[1] \in Keys
           THEN IsMembers(Tail(inner))
           ELSE IsMembers(inner)

\* Extract with a default in place of the exception for an absent path.
Extract_DefaultWhenAbsent(line) ==
    LET text == RStrip(line)
    IN  IF ~IsJsonObject(text) THEN [error |-> "JSONError"]
        ELSE IF text[2] \notin Keys
        THEN [error |-> "", value |-> [type |-> "NoneType", text |-> <<"None">>]]
        ELSE IF ~Hashable(FingerprintValue(text[2])) THEN [error |-> "TypeError"]
        ELSE [error |-> "", value |-> FingerprintValue(text[2])]

\* list(ijson.items(io.BytesIO(line), 'data.leaf_cert'))[0]['fingerprint'],
\* then the dict lookup of the value: the value, or the exception raised.
Extract(line) ==
    LET text == RStrip(line)
    IN  IF ~IsJsonObject(text) THEN [error |-> "JSONError"]
        ELSE IF text[2] \notin Keys THEN [error |-> "IndexError"]
        ELSE IF ~Hashable(FingerprintValue(text[2])) THEN [error |-> "TypeError"]
        ELSE [error |-> "", value |-> FingerprintValue(text[2])]

-----------------------------------------------------------------------------
(* Output format *)

GroupOpen == "{\"fingerprint\": \""
GroupMiddle == "\", \"certificates\": ["
\* ']}' + "\n": what every group ends with.
Sentinel == <<"]", "}", LF>>

\* '{"fingerprint": "%s", "certificates": [' % finger_print
GroupHead(finger_print) == <<GroupOpen>> \o finger_print.text \o <<GroupMiddle>>

-----------------------------------------------------------------------------
(* State *)

VARIABLES
    input_exists,        \* os.path.exists(INPUT_FILE)
    input_bytes,         \* the bytes of the input file, never written
    \* cert_duplicate_identifier_memory_scalable.py (disk-resident)
    d_pc,                \* where the script is
    d_error,             \* the exception that ended it, "" for none
    d_fs,                \* the file system of its working directory
    d_input_file,        \* self.input_file
    d_output_file,       \* self.output_file
    d_temp_directory,    \* self.temp_directory
    d_finger_print_map,  \* self.finger_print_map
    d_start,             \* process_data's start
    d_count,             \* process_data's count
    d_calls,             \* process_data calls made on this object
    d_reads,             \* history: the look-back reads of the input so far
    d_prev,              \* history: how the run before this one ended
    \* cert_duplicate_identifier_runtime_optimized.py (memory-resident)
    m_pc,
    m_error,
    m_fs,
    m_input_file,
    m_output_file,
    m_finger_print_map,  \* in insertion order: <<[fp, position_array], ...>>
    m_start,
    m_calls,
    m_reads,
    m_prev

d_vars == <<d_pc, d_error, d_fs, d_input_file, d_output_file, d_temp_directory,
            d_finger_print_map, d_start, d_count, d_calls, d_reads, d_prev>>
m_vars == <<m_pc, m_error, m_fs, m_input_file, m_output_file,
            m_finger_print_map, m_start, m_calls, m_reads, m_prev>>
in_vars == <<input_exists, input_bytes>>
vars == <<in_vars, d_vars, m_vars>>

\* A script has ended: it returned, or an exception ended it.
Ended(pc) == pc \in {"done", "raised"}

None == <<>>
Some(x) == <<x>>

\* The pre-flight check skipped.
InputFileExists_Unchecked == TRUE

\* os.path.exists(input_file)
InputFileExists == input_exists

-----------------------------------------------------------------------------
(* Disk-resident strategy *)

OUTPUT_DIRECTORY == Dir("output")

\* CertificateDuplicateIdentifier.__init__
D_Init ==
    /\ d_input_file = ""
    /\ d_output_file = Dir("duplicate_certificates")
    /\ d_temp_directory = Dir("temp")
    /\ d_finger_print_map = <<>>
    /\ d_pc = "new"
    /\ d_error = ""
    /\ d_start = 0
    /\ d_count = 0
    /\ d_calls = 0
    /\ d_reads = <<>>

\* The entry made with the tag of an entry already written.
MapValue_TagExisting(start, length, tag, path, end_offset) ==
    [start |-> start, length |-> length, tag |-> TAG_EXISTING, path |-> path,
     end_offset |-> end_offset]

MapValue(start, length, tag, path, end_offset) ==
    [start |-> start, length |-> length, tag |-> tag, path |-> path,
     end_offset |-> end_offset]

\* append with the look-back read made before the tag is looked at.
append_ReadEveryTime(fs, finger_print, map_val, current_obj) ==
    LET first_obj == TextRead(input_bytes, map_val.start, map_val.length)
        read == <<[fp |-> finger_print, start |-> map_val.start,
                   length |-> map_val.length, data |-> first_obj]>>
    IN  IF map_val.tag = TAG_NEW
        THEN LET temp_str == GroupHead(finger_print) \o RStrip(first_obj) \o <<",">>
                                 \o RStrip(current_obj) \o Sentinel
             IN  [fs |-> [fs EXCEPT !.files =
                             [p \in DOMAIN fs.files \cup {map_val.path} |->
                                 IF p = map_val.path THEN temp_str ELSE fs.files[p]]],
                  tell |-> Len(temp_str),
                  read |-> read]
        ELSE LET end == map_val.end_offset[1]
                 data == <<",">> \o RStrip(current_obj) \o Sentinel
                 old == fs.files[map_val.path]
                 new == SubSeq(old, 1, end - 3) \o data
                            \o SubSeq(old, end - 3 + Len(data) + 1, Len(old))
             IN  [fs |-> [fs EXCEPT !.files[map_val.path] = new],
                  tell |-> (end - 3) + Len(data),
                  read |-> read]

\* append: the per-fingerprint file as written, the offset returned, and the
\* look-back read made (if any).
append(fs, finger_print, map_val, current_obj) ==
    IF map_val.tag = TAG_NEW
    THEN LET first_obj == TextRead(input_bytes, map_val.start, map_val.length)
             temp_text == GroupHead(finger_print)
             temp_str == temp_text \o RStrip(first_obj) \o <<",">>
                             \o RStrip(current_obj) \o Sentinel
         IN  [fs |-> WriteFile(fs, map_val.path, temp_str),
              tell |-> Len(temp_str),
              read |-> <<[fp |-> finger_print, start |-> map_val.start,
                          length |-> map_val.length, data |-> first_obj]>>]
    ELSE LET end == map_val.end_offset[1]
             data == <<",">> \o RStrip(current_obj) \o Sentinel
         IN  [fs |-> WriteFile(fs, map_val.path,
                               Overwrite(fs.files[map_val.path], end - 3, data)),
              tell |-> (end - 3) + Len(data),
              read |-> <<>>]

\* process_data up to its loop: the pre-flight check, the directories, the
\* paths, and the first readline.
D_Enter ==
    /\ d_calls' = d_calls + 1
    /\ IF ~InputFileExists
       THEN /\ d_pc' = "raised"
            /\ d_error' = "Input file does not exists"
            /\ UNCHANGED <<d_fs, d_input_file, d_output_file, d_temp_directory,
                           d_start, d_count>>
       ELSE LET output_directory == OUTPUT_DIRECTORY
                out == clean_and_create_directory(d_fs, output_directory)
                temp_directory == output_directory \o d_temp_directory
                tmp == clean_and_create_directory(out.fs, temp_directory)
            IN  IF ~out.ok
                THEN /\ d_pc' = "raised"
                     /\ d_error' = "FileNotFoundError"
                     /\ d_fs' = out.fs
                     /\ UNCHANGED <<d_input_file, d_output_file, d_temp_directory,
                                    d_start, d_count>>
                ELSE IF ~tmp.ok
                THEN /\ d_pc' = "raised"
                     /\ d_error' = "FileNotFoundError"
                     /\ d_fs' = tmp.fs
                     /\ d_temp_directory' = temp_directory
                     /\ UNCHANGED <<d_input_file, d_output_file, d_start, d_count>>
                ELSE /\ d_pc' = "scan"
                     /\ d_error' = ""
                     /\ d_fs' = tmp.fs
                     /\ d_temp_directory' = temp_directory
                     /\ d_input_file' = "INPUT_FILE"
                     /\ d_output_file' = get_file_path(output_directory, d_output_file,
                                                       JSONLINE_EXTENSION)
                     /\ d_start' = 0
                     /\ d_count' = 0
    /\ UNCHANGED <<d_finger_print_map, d_reads>>

\* The script's call of process_data on its new object.
D_ProcessData ==
    /\ d_pc = "new"
    /\ Ended(m_pc)
    /\ D_Enter
    /\ UNCHANGED d_prev
    /\ UNCHANGED <<in_vars, m_vars>>

\* One turn of process_data's loop: the line at start.
D_ScanLine ==
    /\ d_pc = "scan"
    /\ LET line == ReadLine(input_bytes, d_start)
           end == d_start + Len(line)
           got == Extract(line)
           length == end - d_start
       IN  /\ line # <<>>
           /\ IF got.error # ""
              THEN /\ d_pc' = "raised"
                   /\ d_error' = got.error
                   /\ UNCHANGED <<d_fs, d_finger_print_map, d_start, d_count, d_reads>>
              ELSE LET finger_print_str == got.value
                   IN  /\ IF finger_print_str \in DOMAIN d_finger_print_map
                          THEN LET old == d_finger_print_map[finger_print_str]
                                   isNew == old.tag = TAG_NEW
                                   count == IF isNew THEN d_count + 1 ELSE d_count
                                   path == get_file_path(d_temp_directory,
                                                         << <<ToString(count)>> >>,
                                                         JSONLINE_EXTENSION)
                                   map_value == IF isNew THEN [old EXCEPT !.path = path]
                                                ELSE old
                                   app == append(d_fs, finger_print_str, map_value, line)
                               IN  /\ d_count' = count
                                   /\ d_fs' = app.fs
                                   /\ d_reads' = d_reads \o app.read
                                   /\ d_finger_print_map' =
                                        [d_finger_print_map EXCEPT ![finger_print_str] =
                                            [map_value EXCEPT !.end_offset = Some(app.tell),
                                                              !.tag = TAG_EXISTING]]
                          ELSE /\ d_finger_print_map' =
                                    [k \in DOMAIN d_finger_print_map \cup {finger_print_str} |->
                                        IF k = finger_print_str
                                        THEN MapValue(d_start, length, TAG_NEW, None, None)
                                        ELSE d_finger_print_map[k]]
                               /\ UNCHANGED <<d_fs, d_count, d_reads>>
                       /\ d_start' = end
                       /\ UNCHANGED <<d_pc, d_error>>
    /\ UNCHANGED <<d_input_file, d_output_file, d_temp_directory, d_calls, d_prev>>
    /\ UNCHANGED <<in_vars, m_vars>>

\* readline returned nothing: the loop and process_data end.
D_ScanEnd ==
    /\ d_pc = "scan"
    /\ ReadLine(input_bytes, d_start) = <<>>
    /\ d_pc' = "scanned"
    /\ UNCHANGED <<d_error, d_fs, d_input_file, d_output_file, d_temp_directory,
                   d_finger_print_map, d_start, d_count, d_calls, d_reads, d_prev>>
    /\ UNCHANGED <<in_vars, m_vars>>

\* The files glob.glob(temp_directory + '/*.jsonline') matches.
GlobTemp(fs, temp_directory) ==
    { p \in DOMAIN fs.files :
        /\ Parent(p) = temp_directory
        /\ Len(p[Len(p)]) >= 2
        /\ p[Len(p)][Len(p[Len(p)])] = JSONLINE_EXTENSION }

\* The orders in which a directory listing may return the files of S.
Listings(S) ==
    { f \in [1..Cardinality(S) -> S] : \A i, j \in DOMAIN f : i # j => f[i] # f[j] }

RECURSIVE CopyAll(_, _)
\* shutil.copyfileobj of each file of the listing, in turn, into one file.
CopyAll(fs, listing) ==
    IF listing = <<>> THEN <<>>
    ELSE fs.files[Head(listing)] \o CopyAll(fs, Tail(listing))

\* merge_and_create_output(clear_temp=True)
D_Merge ==
    /\ d_pc = "scanned"
    /\ \E listing \in Listings(GlobTemp(d_fs, d_temp_directory)) :
          d_fs' = clean_directory(WriteFile(d_fs, d_output_file, CopyAll(d_fs, listing)),
                                  d_temp_directory)
    /\ d_pc' = "done"
    /\ UNCHANGED <<d_error, d_input_file, d_output_file, d_temp_directory,
                   d_finger_print_map, d_start, d_count, d_calls, d_reads, d_prev>>
    /\ UNCHANGED <<in_vars, m_vars>>

-----------------------------------------------------------------------------
(* Memory-resident strategy *)

\* CertificateDuplicateIdentifier.__init__
M_Init ==
    /\ m_input_file = ""
    /\ m_output_file = Dir("duplicate_certificates")
    /\ m_finger_print_map = <<>>
    /\ m_pc = "new"
    /\ m_error = ""
    /\ m_start = 0
    /\ m_calls = 0
    /\ m_reads = <<>>

\* The fingerprints of the map, and where each is in it.
MapKeys(map) == { map[i].fp : i \in DOMAIN map }
\* The entry last made, whatever its fingerprint.
IndexOf_Last(map, fp) == Len(map)
IndexOf(map, fp) == CHOOSE i \in DOMAIN map : map[i].fp = fp

\* process_data up to its loop: the pre-flight check and the first readline.
M_Enter ==
    /\ m_calls' = m_calls + 1
    /\ IF ~InputFileExists
       THEN /\ m_pc' = "raised"
            /\ m_error' = "Input file does not exists"
            /\ UNCHANGED <<m_input_file, m_start>>
       ELSE /\ m_pc' = "scan"
            /\ m_error' = ""
            /\ m_input_file' = "INPUT_FILE"
            /\ m_start' = 0
    /\ UNCHANGED <<m_fs, m_output_file, m_finger_print_map, m_reads>>

\* The script's call of process_data on its new object.
M_ProcessData ==
    /\ m_pc = "new"
    /\ M_Enter
    /\ UNCHANGED m_prev
    /\ UNCHANGED <<in_vars, d_vars>>

\* One turn of process_data's loop: the line at start.
M_ScanLine ==
    /\ m_pc = "scan"
    /\ LET line == ReadLine(input_bytes, m_start)
           end == m_start + Len(line)
           got == Extract(line)
           length == end - m_start
       IN  /\ line # <<>>
           /\ IF got.error # ""
              THEN /\ m_pc' = "raised"
                   /\ m_error' = got.error
                   /\ UNCHANGED <<m_finger_print_map, m_start>>
              ELSE LET finger_print_str == got.value
                   IN  /\ IF finger_print_str \in MapKeys(m_finger_print_map)
                          THEN m_finger_print_map' =
                                 [m_finger_print_map EXCEPT
                                    ![IndexOf(m_finger_print_map, finger_print_str)].position_array =
                                        Append(@, <<m_start, length>>)]
                          ELSE m_finger_print_map' =
                                 Append(m_finger_print_map,
                                        [fp |-> finger_print_str,
                                         position_array |-> << <<m_start, length>> >>])
                       /\ m_start' = end
                       /\ UNCHANGED <<m_pc, m_error>>
    /\ UNCHANGED <<m_fs, m_input_file, m_output_file, m_calls, m_reads, m_prev>>
    /\ UNCHANGED <<in_vars, d_vars>>

\* readline returned nothing: the loop and process_data end.
M_ScanEnd ==
    /\ m_pc = "scan"
    /\ ReadLine(input_bytes, m_start) = <<>>
    /\ m_pc' = "scanned"
    /\ UNCHANGED <<m_error, m_fs, m_input_file, m_output_file, m_finger_print_map,
                   m_start, m_calls, m_reads, m_prev>>
    /\ UNCHANGED <<in_vars, d_vars>>

RECURSIVE ReadAll(_, _)
\* write's inner loop: one seek and read per position, in order.
ReadAll(fp, position_array) ==
    IF position_array = <<>> THEN <<>>
    ELSE LET start == Head(position_array)[1]
             length == Head(position_array)[2]
         IN  <<[fp |-> fp, start |-> start, length |-> length,
                data |-> TextRead(input_bytes, start, length)]>>
                 \o ReadAll(fp, Tail(position_array))

RECURSIVE JoinLines(_)
\* text += line.rstrip() + ',' for each line read
JoinLines(reads) ==
    IF reads = <<>> THEN <<>>
    ELSE RStrip(Head(reads).data) \o <<",">> \o JoinLines(Tail(reads))

\* The condition taken one too low.
HasDuplicate_FromOne(map_val) == Len(map_val.position_array) >= 1

\* write's condition for a fingerprint to be written.
HasDuplicate(map_val) == Len(map_val.position_array) > 1

\* The text write puts out for one entry of the map.
GroupText(entry) ==
    IF HasDuplicate(entry)
    THEN RStripComma(GroupHead(entry.fp) \o JoinLines(ReadAll(entry.fp, entry.position_array)))
             \o Sentinel
    ELSE <<>>

RECURSIVE WriteText(_)
\* write's outer loop over the map, in its (insertion) order.
WriteText(map) ==
    IF map = <<>> THEN <<>>
    ELSE GroupText(Head(map)) \o WriteText(Tail(map))

RECURSIVE WriteReads(_)
WriteReads(map) ==
    IF map = <<>> THEN <<>>
    ELSE (IF HasDuplicate(Head(map))
          THEN ReadAll(Head(map).fp, Head(map).position_array) ELSE <<>>)
             \o WriteReads(Tail(map))

\* write(OUTPUT_DIRECTORY)
M_Write ==
    /\ m_pc = "scanned"
    /\ IF m_input_file = "" \/ ~InputFileExists
       THEN /\ m_pc' = "raised"
            /\ m_error' = "Input file does not exists"
            /\ UNCHANGED <<m_fs, m_output_file, m_reads>>
       ELSE LET output_directory == OUTPUT_DIRECTORY
                out == clean_and_create_directory(m_fs, output_directory)
                output_file == get_file_path(output_directory, m_output_file,
                                             JSONLINE_EXTENSION)
            IN  IF ~out.ok
                THEN /\ m_pc' = "raised"
                     /\ m_error' = "FileNotFoundError"
                     /\ m_fs' = out.fs
                     /\ UNCHANGED <<m_output_file, m_reads>>
                ELSE IF ~CanCreate(out.fs, output_file)
                THEN /\ m_pc' = "raised"
                     /\ m_error' = "FileNotFoundError"
                     /\ m_fs' = out.fs
                     /\ m_output_file' = output_file
                     /\ UNCHANGED m_reads
                ELSE /\ m_pc' = "done"
                     /\ m_error' = ""
                     /\ m_fs' = WriteFile(out.fs, output_file, WriteText(m_finger_print_map))
                     /\ m_output_file' = output_file
                     /\ m_reads' = m_reads \o WriteReads(m_finger_print_map)
    /\ UNCHANGED <<m_input_file, m_finger_print_map, m_start, m_calls, m_prev>>
    /\ UNCHANGED <<in_vars, d_vars>>

-----------------------------------------------------------------------------
(* The scripts.  Both are run on the same, unchanged input file, one after *)
(* the other (they do not share anything but the input): the               *)
(* memory-resident script first, the disk-resident script when it has      *)
(* ended.                                                                  *)

Init ==
    /\ input_exists \in BOOLEAN
    /\ input_bytes \in (IF input_exists THEN InputFiles ELSE {<<>>})
    /\ D_Init /\ d_fs = EmptyFs /\ d_prev = None
    /\ M_Init /\ m_fs = EmptyFs /\ m_prev = None

\* One run of each script: __main__ of either file.
Next ==
    \/ M_ProcessData
    \/ M_ScanLine
    \/ M_ScanEnd
    \/ M_Write
    \/ D_ProcessData
    \/ D_ScanLine
    \/ D_ScanEnd
    \/ D_Merge

Spec == Init /\ [][Next]_vars

\* Longer input files of records of two fingerprints.
LongInputFiles ==
    { Concat(ls, t) :
        ls \in UNION { [1..n -> { <<OpenBrace, KeyA, CloseBrace>>,
                                  <<OpenBrace, KeyA, MbLead, MbCont, CloseBrace>>,
                                  <<OpenBrace, KeyB, CloseBrace>> }] :
                         n \in 0..MaxLongLines },
        t \in BOOLEAN }

InitLong ==
    /\ input_exists \in BOOLEAN
    /\ input_bytes \in (IF input_exists THEN LongInputFiles ELSE {<<>>})
    /\ D_Init /\ d_fs = EmptyFs /\ d_prev = None
    /\ M_Init /\ m_fs = EmptyFs /\ m_prev = None

\* One run of each script on a longer input file.
SpecLong == InitLong /\ [][Next]_vars

-----------------------------------------------------------------------------
(* The script run again, and an engine object used again *)

\* The final output file of a script, None when there is none.
FinalOutput(fs, output_file) ==
    IF output_file \in DOMAIN fs.files THEN Some(fs.files[output_file]) ELSE None

\* __main__ of the memory-resident script, once more: a new object, the file
\* system as the run before left it.
M_Main ==
    /\ Ended(m_pc)
    /\ d_pc = "new"
    /\ m_prev' = Some([pc |-> m_pc, out |-> FinalOutput(m_fs, m_output_file)])
    /\ m_input_file' = ""
    /\ m_output_file' = Dir("duplicate_certificates")
    /\ m_finger_print_map' = <<>>
    /\ m_pc' = "new"
    /\ m_error' = ""
    /\ m_start' = 0
    /\ m_calls' = 0
    /\ m_reads' = <<>>
    /\ UNCHANGED m_fs
    /\ UNCHANGED <<in_vars, d_vars>>

\* __main__ of the disk-resident script, once more.
D_Main ==
    /\ Ended(d_pc)
    /\ d_prev' = Some([pc |-> d_pc, out |-> FinalOutput(d_fs, d_output_file)])
    /\ d_input_file' = ""
    /\ d_output_file' = Dir("duplicate_certificates")
    /\ d_temp_directory' = Dir("temp")
    /\ d_finger_print_map' = <<>>
    /\ d_pc' = "new"
    /\ d_error' = ""
    /\ d_start' = 0
    /\ d_count' = 0
    /\ d_calls' = 0
    /\ d_reads' = <<>>
    /\ UNCHANGED d_fs
    /\ UNCHANGED <<in_vars, m_vars>>

NextRerun == Next \/ M_Main \/ D_Main

\* Each script run any number of times on the unchanged input.
SpecRerun == Init /\ [][NextRerun]_vars

\* A caller's further process_data call on an object whose run has ended.
M_ProcessDataAgain ==
    /\ Ended(m_pc)
    /\ m_calls < MaxCalls
    /\ d_pc = "new"
    /\ M_Enter
    /\ m_prev' = Some([pc |-> m_pc, out |-> FinalOutput(m_fs, m_output_file)])
    /\ UNCHANGED <<in_vars, d_vars>>

D_ProcessDataAgain ==
    /\ Ended(d_pc)
    /\ d_calls < MaxCalls
    /\ D_Enter
    /\ d_prev' = Some([pc |-> d_pc, out |-> FinalOutput(d_fs, d_output_file)])
    /\ UNCHANGED <<in_vars, m_vars>>

NextReuse == Next \/ M_ProcessDataAgain \/ D_ProcessDataAgain

\* One object of each engine, used for up to MaxCalls runs.
SpecReuse == Init /\ [][NextReuse]_vars

-----------------------------------------------------------------------------
(* What the claims speak of *)

RECURSIVE ScanLines(_, _)
\* The lines of the file from offset start on, each with its offset and with
\* what the extraction gets from it.
ScanLines(bytes, start) ==
    LET line == ReadLine(bytes, start)
    IN  IF line = <<>> THEN <<>>
        ELSE <<[start |-> start, line |-> line, got |-> Extract(line)]>>
                 \o ScanLines(bytes, start + Len(line))

InputLines == ScanLines(input_bytes, 0)

\* The line holds fingerprint fp.
HasFingerprint(r, fp) == r.got.error = "" /\ r.got.value = fp

\* The fingerprints of the lines ls, and the lines of each, in input order.
Fingerprints(ls) ==
    { ls[i].got.value : i \in { j \in DOMAIN ls : ls[j].got.error = "" } }
Occurrences(ls, fp) == SelectSeq(ls, LAMBDA r : HasFingerprint(r, fp))

\* The final output of a script that has returned.
DOut == d_fs.files[d_output_file]
MOut == m_fs.files[m_output_file]

\* Where the groups of an output start, and the group that starts at i: up to
\* the next group's start.
GroupStarts(out) == { i \in DOMAIN out : out[i] = GroupOpen }
GroupAt(out, i) ==
    LET later == { j \in GroupStarts(out) : j > i }
    IN  SubSeq(out, i, IF later = {} THEN Len(out) ELSE Min(later) - 1)
IsPrefix(p, s) == Len(p) <= Len(s) /\ SubSeq(s, 1, Len(p)) = p
\* The groups of an output that are for fingerprint fp.
GroupsFor(out, fp) ==
    { i \in GroupStarts(out) : IsPrefix(GroupHead(fp), GroupAt(out, i)) }

RECURSIVE JoinRecords(_)
\* The lines' records, without trailing whitespace, separated by commas.
JoinRecords(rs) ==
    IF rs = <<>> THEN <<>>
    ELSE IF Len(rs) = 1 THEN RStrip(rs[1].line)
    ELSE RStrip(rs[1].line) \o <<",">> \o JoinRecords(Tail(rs))

\* The group of fp: all its records among the lines ls, in input order.
ExpectedGroup(ls, fp) == GroupHead(fp) \o JoinRecords(Occurrences(ls, fp)) \o Sentinel

\* The output holds exactly one group for fp, and it is the expected one.
OneGroup(out, ls, fp) ==
    /\ Cardinality(GroupsFor(out, fp)) = 1
    /\ \A i \in GroupsFor(out, fp) : GroupAt(out, i) = ExpectedGroup(ls, fp)

\* Every fingerprint with two or more of the lines ls has its one group in out.
AllGrouped(out, ls) ==
    \A fp \in Fingerprints(ls) : Len(Occurrences(ls, fp)) >= 2 => OneGroup(out, ls, fp)

\* C1: in both strategies a fingerprint that occurs N >= 2 times in the input
\* gets exactly one group in the final output, holding exactly its N records
\* in input order.
C1_OneGroupOfAllRecords ==
    /\ d_pc = "done" => AllGrouped(DOut, InputLines)
    /\ m_pc = "done" => AllGrouped(MOut, InputLines)

\* The fingerprints that occur exactly once among the lines ls.
Singles(ls) == { fp \in Fingerprints(ls) : Len(Occurrences(ls, fp)) = 1 }

\* No file of the file system holds a group for a fingerprint of S.
NoGroupFor(fs, S) ==
    \A p \in DOMAIN fs.files : \A fp \in S : GroupsFor(fs.files[p], fp) = {}

\* C2: in both strategies a fingerprint that occurs exactly once in the input
\* never gets a per-fingerprint file (disk-resident, at any time of the run)
\* nor a group in the final output.
C2_NoGroupForSingle ==
    LET single == Singles(InputLines)
    IN  /\ NoGroupFor(d_fs, single)
        /\ NoGroupFor(m_fs, single)
        /\ \A fp \in single \cap DOMAIN d_finger_print_map :
             /\ d_finger_print_map[fp].path = None
             /\ d_finger_print_map[fp].tag = TAG_NEW

\* Both scripts returned, a fingerprint occurs once and another one has a
\* group in both outputs.
C2_Witness ==
    /\ d_pc = "done" /\ m_pc = "done"
    /\ Singles(InputLines) # {}
    /\ GroupStarts(DOut) # {} /\ GroupStarts(MOut) # {}

\* The groups of an output, as a set.
Groups(out) == { GroupAt(out, i) : i \in GroupStarts(out) }

\* C3: on the same input both strategies put out the same fingerprints and,
\* per fingerprint, the same records in the same order.
C3_SameGroups ==
    (d_pc = "done" /\ m_pc = "done") =>
        /\ Groups(DOut) = Groups(MOut)
        /\ Cardinality(GroupStarts(DOut)) = Cardinality(GroupStarts(MOut))

\* The read returned the bytes [start, start + length) of the input, no more.
ExactRead(r) == r.data = SubSeq(input_bytes, r.start + 1, r.start + r.length)

\* C4: every look-back read of a stored location returns exactly length bytes
\* from offset, never a byte of a following line, so every record of a group
\* is one input line less its trailing whitespace.
C4_VerbatimRecords ==
    /\ \A i \in DOMAIN d_reads : ExactRead(d_reads[i])
    /\ \A i \in DOMAIN m_reads : ExactRead(m_reads[i])

RECURSIVE SplitAt(_, _)
\* The pieces of s between the separators.
SplitAt(s, sep) ==
    LET at == { i \in DOMAIN s : s[i] = sep }
    IN  IF at = {} THEN <<s>>
        ELSE <<SubSeq(s, 1, Min(at) - 1)>> \o SplitAt(SubSeq(s, Min(at) + 1, Len(s)), sep)

\* The lines of an output, without their LF; whatever follows the last LF is
\* the last piece.
OutputLines(out) == IF out = <<>> THEN <<>> ELSE SplitAt(out, LF)

\* A JSON parse of one output line (less its LF) of the shape
\* {"fingerprint": <string>, "certificates": [...]}: the string and the
\* length of the array.
ParseGroup(line) ==
    LET mids == { i \in DOMAIN line : line[i] = GroupMiddle }
        m == Min(mids)
        text == SubSeq(line, 2, m - 1)
        body == SubSeq(line, m + 1, Len(line) - 2)
        certificates == IF body = <<>> THEN <<>> ELSE SplitAt(body, ",")
    IN  IF /\ Len(line) >= 4
           /\ line[1] = GroupOpen
           /\ mids # {}
           /\ m <= Len(line) - 2
           /\ \A i \in DOMAIN text : text[i] \in {"A", "B", "a", "b", "7"}
           /\ line[Len(line) - 1] = "]"
           /\ line[Len(line)] = "}"
           /\ \A i \in DOMAIN certificates : IsJsonObject(certificates[i])
        THEN [ok |-> TRUE, fingerprint |-> text, certificates |-> Len(certificates)]
        ELSE [ok |-> FALSE]

\* Every line of the output parses, and gives a string fingerprint of the
\* input with as many certificates as it has occurrences.
RoundTrips(out, ls) ==
    /\ out # <<>> => out[Len(out)] = LF
    /\ LET lines == OutputLines(out)
       IN  \A i \in 1..(Len(lines) - 1) :
             LET g == ParseGroup(lines[i])
             IN  /\ g.ok
                 /\ \E fp \in Fingerprints(ls) :
                      /\ fp.type = "str"
                      /\ fp.text = g.fingerprint
                      /\ g.certificates = Len(Occurrences(ls, fp))

\* C5: every line of the final output is valid JSON of shape
\* {"fingerprint": <string>, "certificates": [...]} whose fingerprint is the
\* extracted one and whose array is as long as the fingerprint's number of
\* occurrences, also for a fingerprint holding a double quote.
C5_OutputRoundTrips ==
    /\ d_pc = "done" => RoundTrips(DOut, InputLines)
    /\ m_pc = "done" => RoundTrips(MOut, InputLines)

\* C6: two complete runs of the same script on the unchanged input leave
\* byte-identical final output files.
C6_SameOutputAgain ==
    /\ (d_pc = "done" /\ d_prev # None /\ d_prev[1].pc = "done") =>
           FinalOutput(d_fs, d_output_file) = d_prev[1].out
    /\ (m_pc = "done" /\ m_prev # None /\ m_prev[1].pc = "done") =>
           FinalOutput(m_fs, m_output_file) = m_prev[1].out

\* C7: a further process_data call on an engine object that has completed a
\* run starts its scan from an empty fingerprint map, so that after the scan
\* the map holds what this scan saw: per fingerprint its occurrences in the
\* input.
C7_FreshIndexPerRun ==
    /\ (d_calls > 1 /\ d_prev[1].pc = "done" /\ d_pc = "scan" /\ d_start = 0)
          => d_finger_print_map = <<>>
    /\ (d_calls > 1 /\ d_prev[1].pc = "done" /\ d_pc = "scanned") =>
          \A fp \in DOMAIN d_finger_print_map :
              (d_finger_print_map[fp].tag = TAG_EXISTING)
                  <=> (Len(Occurrences(InputLines, fp)) >= 2)
    /\ (m_calls > 1 /\ m_prev[1].pc = "done" /\ m_pc = "scan" /\ m_start = 0)
          => m_finger_print_map = <<>>
    /\ (m_calls > 1 /\ m_prev[1].pc = "done" /\ m_pc = "scanned") =>
          \A i \in DOMAIN m_finger_print_map :
              Len(m_finger_print_map[i].position_array)
                  = Len(Occurrences(InputLines, m_finger_print_map[i].fp))

\* The line is a JSON object without the path data.leaf_cert.fingerprint.
MissingPath(line) ==
    /\ IsJsonObject(RStrip(line))
    /\ RStrip(line)[2] \notin Keys

\* The offsets of the lines of ls without the path.
MissingPathAt(ls) == { ls[i].start : i \in { j \in DOMAIN ls : MissingPath(ls[j].line) } }

\* What C8 says of one script, at pc, with start, error and final output;
\* missing are the offsets of the lines without the path.
AbortsAtMissingPath(missing, pc, start, error, output) ==
    /\ \A o \in missing : o >= start
    /\ (pc = "raised" /\ start \in missing) => error = "IndexError"
    /\ error = "IndexError" => (pc = "raised" /\ start \in missing)
    /\ missing # {} => (pc \notin {"scanned", "done"} /\ output = None)

\* C8: in both strategies a line without the path data.leaf_cert.fingerprint
\* ends the run with an error at that line: the scan never goes past it, and
\* the run leaves no final output file.
C8_MissingPathAborts ==
    LET missing == MissingPathAt(InputLines)
    IN  /\ AbortsAtMissingPath(missing, d_pc, d_start, d_error,
                               FinalOutput(d_fs, d_output_file))
        /\ AbortsAtMissingPath(missing, m_pc, m_start, m_error,
                               FinalOutput(m_fs, m_output_file))

\* Both scripts ended at a line without the path, which is not the first line
\* and not the last.
C8_Witness ==
    /\ d_pc = "raised" /\ d_error = "IndexError"
    /\ m_pc = "raised" /\ m_error = "IndexError"
    /\ d_start > 0 /\ m_start = d_start
    /\ MissingPath(ReadLine(input_bytes, d_start))
    /\ d_start + Len(ReadLine(input_bytes, d_start)) < Len(input_bytes)
    /\ DOMAIN m_finger_print_map # {}

\* C9: a line whose value at data.leaf_cert.fingerprint is not a string is an
\* extraction error and is not entered into the index, as are a line without
\* the path and a line that is not JSON.
C9_OnlyStringFingerprints ==
    /\ \A fp \in DOMAIN d_finger_print_map : fp.type = "str"
    /\ \A fp \in MapKeys(m_finger_print_map) : fp.type = "str"
    /\ LET ls == InputLines
       IN  \A i \in DOMAIN ls :
             ~IsJsonObject(RStrip(ls[i].line)) \/ MissingPath(ls[i].line)
                => (ls[i].start >= d_start /\ ls[i].start >= m_start)

\* C10: without the input file process_data ends with the error of its
\* pre-flight check: nothing is scanned, the fingerprint map stays as it was,
\* and no file or directory is made.
C10_InputNotFound ==
    ~input_exists =>
        /\ d_pc \in {"new", "raised"}
        /\ d_pc = "raised" => d_error = "Input file does not exists"
        /\ d_fs = EmptyFs /\ d_finger_print_map = <<>> /\ d_start = 0 /\ d_reads = <<>>
        /\ m_pc \in {"new", "raised"}
        /\ m_pc = "raised" => m_error = "Input file does not exists"
        /\ m_fs = EmptyFs /\ m_finger_print_map = <<>> /\ m_start = 0 /\ m_reads = <<>>

\* Both scripts called process_data without the input file.
C10_Witness ==
    /\ ~input_exists
    /\ d_pc = "raised" /\ d_calls = 1
    /\ m_pc = "raised" /\ m_calls = 1


-----------------------------------------------------------------------------
(* The empty input *)

\* What C11 says of one script, at pc, with its final output.
EmptyRun(pc, error, output) ==
    /\ pc # "raised" /\ error = ""
    /\ pc = "done" => output = Some(<<>>)

\* C11: on an input file that exists and is empty both strategies end
\* without error, and the final output file exists and holds zero bytes.
C11_EmptyInput ==
    (input_exists /\ input_bytes = <<>>) =>
        /\ EmptyRun(d_pc, d_error, FinalOutput(d_fs, d_output_file))
        /\ EmptyRun(m_pc, m_error, FinalOutput(m_fs, m_output_file))

\* Both scripts returned on the empty input file.
C11_Witness ==
    /\ input_exists /\ input_bytes = <<>>
    /\ d_pc = "done" /\ m_pc = "done"
    /\ d_output_file \in DOMAIN d_fs.files
    /\ m_output_file \in DOMAIN m_fs.files

-----------------------------------------------------------------------------
(* The disk-resident scan, line by line *)

\* The lines of ls that a scan now at offset start has been through.
Scanned(ls, start) == SelectSeq(ls, LAMBDA r : r.start < start)

\* The look-back reads made for fingerprint fp.
ReadsOf(reads, fp) == { i \in DOMAIN reads : reads[i].fp = fp }

\* C12: the disk-resident strategy reads a fingerprint's first occurrence
\* back from the input when its second occurrence is scanned and at no other
\* time: at every point of the scan a fingerprint seen twice or more has
\* exactly one look-back read, at its first location, and a fingerprint seen
\* once has none.
C12_LookBackOnSecond ==
    LET seen == Scanned(InputLines, d_start)
    IN  /\ \A i \in DOMAIN d_reads :
             LET occ == Occurrences(seen, d_reads[i].fp)
             IN  /\ Len(occ) >= 2
                 /\ d_reads[i].start = occ[1].start
                 /\ d_reads[i].length = Len(occ[1].line)
                 /\ Cardinality(ReadsOf(d_reads, d_reads[i].fp)) = 1
        /\ \A fp \in Fingerprints(seen) :
             Len(Occurrences(seen, fp)) >= 2 => ReadsOf(d_reads, fp) # {}

\* The scan is past the third occurrence of one fingerprint and past the only
\* occurrence of another, with one look-back read made.
C12_Witness ==
    LET seen == Scanned(InputLines, d_start)
    IN  /\ d_pc = "scan"
        /\ Len(d_reads) = 1
        /\ Len(Occurrences(seen, d_reads[1].fp)) >= 3
        /\ \E fp \in Fingerprints(seen) : Len(Occurrences(seen, fp)) = 1

-----------------------------------------------------------------------------
(* The entries of the disk-resident index *)

\* The two stages of an entry: seen once; seen again and written to its file.
FirstSeen(v) == v.tag = TAG_NEW /\ v.path = None /\ v.end_offset = None
Flushed(v) == v.tag = TAG_EXISTING /\ v.path # None /\ v.end_offset # None

\* This step of the disk-resident scan took a line of fingerprint fp into the
\* index.
ScansLineOf(fp) ==
    /\ d_pc = "scan"
    /\ d_start' > d_start
    /\ LET got == Extract(ReadLine(input_bytes, d_start))
       IN  got.error = "" /\ got.value = fp

\* One step, for the entry of fp that is in the index before it.
EntryStep(fp) ==
    /\ fp \in DOMAIN d_finger_print_map'
    /\ LET old == d_finger_print_map[fp]
           new == d_finger_print_map'[fp]
       IN  /\ FirstSeen(new) \/ Flushed(new)
           /\ Flushed(old) => (Flushed(new) /\ new.path = old.path)
           /\ (FirstSeen(old) /\ Flushed(new)) => ScansLineOf(fp)
           /\ (FirstSeen(old) /\ ScansLineOf(fp)) => Flushed(new)
           /\ ~ScansLineOf(fp) => new = old

\* One step, for an entry that it makes.
EntryMade(fp) ==
    /\ ScansLineOf(fp)
    /\ FirstSeen(d_finger_print_map'[fp])
    /\ d_finger_print_map'[fp].start = d_start
    /\ d_finger_print_map'[fp].length = d_start' - d_start

LifeCycleStep ==
    /\ \A fp \in DOMAIN d_finger_print_map : EntryStep(fp)
    /\ \A fp \in (DOMAIN d_finger_print_map') \ (DOMAIN d_finger_print_map) :
          EntryMade(fp)

\* C13: an entry of the disk-resident index is made FirstSeen (tag NW, no
\* path, no cursor) by its fingerprint's first occurrence, becomes Flushed
\* (tag EX, with path and cursor) exactly at the second occurrence, never goes
\* back and is never removed, and once Flushed it keeps its path.
C13_EntryLifeCycle == [][LifeCycleStep]_vars

\* The scan went through three lines of one fingerprint, whose entry is
\* Flushed, and one line of another, whose entry is FirstSeen.
C13_Witness ==
    LET seen == Scanned(InputLines, d_start)
    IN  /\ \E fp \in DOMAIN d_finger_print_map :
             /\ Flushed(d_finger_print_map[fp])
             /\ Len(Occurrences(seen, fp)) >= 3
        /\ \E fp \in DOMAIN d_finger_print_map :
             /\ FirstSeen(d_finger_print_map[fp])
             /\ Len(Occurrences(seen, fp)) = 1

-----------------------------------------------------------------------------
(* The per-fingerprint files *)

\* The per-fingerprint files are there: from the first line scanned until the
\* merge removes them.
TempFilesKept == d_pc \in {"scan", "scanned", "raised"}

IsSuffix(p, s) == Len(p) <= Len(s) /\ SubSeq(s, Len(s) - Len(p) + 1, Len(s)) = p

\* The file of a Flushed entry ends with the sentinel, and the entry's cursor
\* is the file's length.
CursorAtEnd(fs, v) ==
    /\ v.path \in DOMAIN fs.files
    /\ LET file == fs.files[v.path]
           end == v.end_offset[1]
       IN  /\ Len(Sentinel) = 3
           /\ IsSuffix(Sentinel, file)
           /\ end = Len(file)
           /\ SubSeq(file, (end - 3) + 1, end) = Sentinel

\* C14: after every writer step of the disk-resident strategy (the first
\* write of a group or a later append) the per-fingerprint file ends with the
\* three bytes ']', '}', LF and the entry's end_offset is the file's length,
\* so that end_offset - 3 is the offset of the sentinel's first byte.
C14_CursorAtSentinel ==
    TempFilesKept =>
        \A fp \in DOMAIN d_finger_print_map :
            Flushed(d_finger_print_map[fp]) => CursorAtEnd(d_fs, d_finger_print_map[fp])

\* The scan made a first write and a later append to one fingerprint's file,
\* with a record that holds a multi-byte character.
C14_Witness ==
    /\ TempFilesKept
    /\ \E fp \in DOMAIN d_finger_print_map :
          /\ Flushed(d_finger_print_map[fp])
          /\ Len(Occurrences(Scanned(InputLines, d_start), fp)) >= 3
          /\ \E i \in DOMAIN d_fs.files[d_finger_print_map[fp].path] :
                d_fs.files[d_finger_print_map[fp].path][i] = MbLead

\* The per-fingerprint files of the temporary directory.
TempFiles(fs) == GlobTemp(fs, d_temp_directory)

\* C15: at every point of the disk-resident scan each per-fingerprint file is
\* one complete group: head, the k >= 2 records of its fingerprint scanned so
\* far in input order, sentinel, and nothing else; and every fingerprint
\* scanned twice or more has its file.
C15_FileIsGroupSoFar ==
    TempFilesKept =>
        LET seen == Scanned(InputLines, d_start)
            flushed == { fp \in DOMAIN d_finger_print_map :
                            Flushed(d_finger_print_map[fp]) }
        IN  /\ \A fp \in flushed :
                 /\ Len(Occurrences(seen, fp)) >= 2
                 /\ d_finger_print_map[fp].path \in DOMAIN d_fs.files
                 /\ d_fs.files[d_finger_print_map[fp].path] = ExpectedGroup(seen, fp)
            /\ \A fp \in Fingerprints(seen) :
                 Len(Occurrences(seen, fp)) >= 2 => fp \in flushed
            /\ TempFiles(d_fs) = { d_finger_print_map[fp].path : fp \in flushed }

\* This step appends a line to the file of fp, whose entry is Flushed.
AppendsTo(fp) == Flushed(d_finger_print_map[fp]) /\ ScansLineOf(fp)

\* What an append to the file of fp leaves as it was.
AppendFrame(fp) ==
    LET v == d_finger_print_map[fp]
        end == v.end_offset[1]
    IN  /\ d_fs'.dirs = d_fs.dirs
        /\ DOMAIN d_fs'.files = DOMAIN d_fs.files
        /\ SubSeq(d_fs'.files[v.path], 1, end - 3) = SubSeq(d_fs.files[v.path], 1, end - 3)
        /\ \A p \in DOMAIN d_fs.files \ {v.path} : d_fs'.files[p] = d_fs.files[p]
        /\ DOMAIN d_finger_print_map' = DOMAIN d_finger_print_map
        /\ \A k \in DOMAIN d_finger_print_map \ {fp} :
              d_finger_print_map'[k] = d_finger_print_map[k]
        /\ d_finger_print_map'[fp].start = v.start
        /\ d_finger_print_map'[fp].length = v.length
        /\ d_finger_print_map'[fp].tag = v.tag
        /\ d_finger_print_map'[fp].path = v.path

AppendFrameStep == \A fp \in DOMAIN d_finger_print_map : AppendsTo(fp) => AppendFrame(fp)

\* C16: the append for a third or later occurrence leaves every byte of the
\* fingerprint's file before end_offset - 3 as it was, leaves every other
\* file as it was, and leaves every other entry of the index, and this
\* entry's start, length, tag and path, as they were.
C16_AppendFrame == [][AppendFrameStep]_vars

\* The scan appended a third record to one fingerprint's file while another
\* fingerprint has its file and its entry.
C16_Witness ==
    LET seen == Scanned(InputLines, d_start)
    IN  /\ d_pc = "scan"
        /\ Cardinality(TempFiles(d_fs)) = 2
        /\ \E fp \in DOMAIN d_finger_print_map :
              /\ Flushed(d_finger_print_map[fp])
              /\ Len(Occurrences(seen, fp)) >= 3
              /\ Occurrences(seen, fp)[Len(Occurrences(seen, fp))] = seen[Len(seen)]

-----------------------------------------------------------------------------
(* The counter of the per-fingerprint files *)

\* The fingerprints whose entry is Flushed.
FlushedFingerprints == { fp \in DOMAIN d_finger_print_map : Flushed(d_finger_print_map[fp]) }

\* The path made of the counter's value n.
CounterPath(n) == d_temp_directory \o << <<ToString(n), JSONLINE_EXTENSION>> >>

\* The counter is the number of Flushed fingerprints, and their paths are
\* those of the counter's values so far, one each.
CounterState ==
    /\ d_count = Cardinality(FlushedFingerprints)
    /\ \A fp \in FlushedFingerprints :
          \E n \in 1..d_count : d_finger_print_map[fp].path = CounterPath(n)
    /\ \A fp, other \in FlushedFingerprints :
          fp # other => d_finger_print_map[fp].path # d_finger_print_map[other].path

\* This step scans the second occurrence of a fingerprint.
ScansSecond ==
    \E fp \in DOMAIN d_finger_print_map : FirstSeen(d_finger_print_map[fp]) /\ ScansLineOf(fp)

CounterStep ==
    /\ d_count' = IF ScansSecond THEN d_count + 1 ELSE d_count
    /\ \A fp \in DOMAIN d_finger_print_map :
          (FirstSeen(d_finger_print_map[fp]) /\ ScansLineOf(fp)) =>
              d_finger_print_map'[fp].path = CounterPath(d_count + 1)
    /\ CounterState'

\* C17: in the disk-resident strategy the counter grows by one exactly at the
\* step that scans a fingerprint's second occurrence, which gets the path of
\* the counter's new value; at every point the counter is the number of
\* Flushed fingerprints and no two of them have the same path.
C17_CounterPaths == [][CounterStep]_vars

\* Two fingerprints are Flushed, each with its own file.
C17_Witness ==
    /\ d_pc = "scan"
    /\ d_count = 2
    /\ Cardinality(FlushedFingerprints) = 2
    /\ Cardinality(TempFiles(d_fs)) = 2

-----------------------------------------------------------------------------
(* The merge *)

\* The number of lines of a file: of its line terminators.
LineCount(bytes) == Cardinality({ i \in DOMAIN bytes : bytes[i] = LF })

\* The fingerprints with two or more of the lines ls.
Duplicated(ls) == { fp \in Fingerprints(ls) : Len(Occurrences(ls, fp)) >= 2 }

\* What the merge step makes of the per-fingerprint files.
MergeStep ==
    (d_pc = "scanned" /\ d_pc' = "done") =>
        /\ d_output_file \in DOMAIN d_fs'.files
        /\ \E listing \in Listings(TempFiles(d_fs)) :
              d_fs'.files[d_output_file] = CopyAll(d_fs, listing)
        /\ LineCount(d_fs'.files[d_output_file]) = Cardinality(Duplicated(InputLines))
        /\ TempFiles(d_fs') = {}
        /\ d_temp_directory \notin d_fs'.dirs

\* C18: after a completed scan merge_and_create_output writes as the final
\* output the concatenation of the per-fingerprint files, each once and with
\* nothing added or dropped, so that the output has as many lines as there
\* are fingerprints with two or more occurrences; afterwards the
\* per-fingerprint files are gone.
C18_MergeConcatenates == [][MergeStep]_vars

-----------------------------------------------------------------------------
(* The memory-resident index *)

\* The locations (start, length) of the lines rs.
Locations(rs) == [i \in DOMAIN rs |-> <<rs[i].start, Len(rs[i].line)>>]

\* The index holds, per fingerprint of the lines ls, the locations of its
\* lines in input order.
HoldsAll(map, ls) ==
    /\ MapKeys(map) = Fingerprints(ls)
    /\ \A i \in DOMAIN map :
          map[i].position_array = Locations(Occurrences(ls, map[i].fp))

\* One step of the memory-resident scan that takes a line into the index: one
\* location more in the list of the line's fingerprint, every list as it was
\* before that.
GrowsByOne ==
    LET got == Extract(ReadLine(input_bytes, m_start))
        location == <<m_start, m_start' - m_start>>
        old == m_finger_print_map
        new == m_finger_print_map'
    IN  /\ got.error = ""
        /\ \A i \in DOMAIN old :
              /\ i \in DOMAIN new
              /\ new[i].fp = old[i].fp
              /\ new[i].position_array =
                    IF old[i].fp = got.value
                    THEN Append(old[i].position_array, location)
                    ELSE old[i].position_array
        /\ IF got.value \in MapKeys(old)
           THEN Len(new) = Len(old)
           ELSE /\ Len(new) = Len(old) + 1
                /\ new[Len(new)] = [fp |-> got.value, position_array |-> <<location>>]

IndexStep ==
    /\ (m_pc = "scan" /\ m_start' > m_start) => GrowsByOne
    /\ ~(m_pc = "scan" /\ m_start' > m_start) => m_finger_print_map' = m_finger_print_map
    /\ m_pc' \in {"scanned", "done"} => HoldsAll(m_finger_print_map', InputLines)

\* C19: in the memory-resident strategy every scanned line appends exactly
\* one location to the list of its fingerprint and no step removes or
\* reorders a location, so that after the scan each list holds all
\* occurrences of its fingerprint in input order; write leaves the
\* fingerprint map as it was.
C19_IndexGrowsOnly == [][IndexStep]_vars

\* write returned, with an index that holds three locations of one
\* fingerprint and one of another, which lies between them.
C19_Witness ==
    /\ m_pc = "done"
    /\ \E i, j \in DOMAIN m_finger_print_map :
          /\ Len(m_finger_print_map[i].position_array) >= 3
          /\ Len(m_finger_print_map[j].position_array) = 1
          /\ m_finger_print_map[j].position_array[1][1]
                > m_finger_print_map[i].position_array[1][1]
          /\ m_finger_print_map[j].position_array[1][1]
                < m_finger_print_map[i].position_array[3][1]

-----------------------------------------------------------------------------
(* The scanner *)

\* The location the scanner yields at offset start: the line there.
LocationAt(start) == <<start, Len(ReadLine(input_bytes, start))>>

\* One script's step, as the scanner sees it: at pc and start before, at
\* next_pc and next_start after.
ScannerStep(pc, start, next_pc, next_start) ==
    /\ (pc = "new" /\ next_pc = "scan") => next_start = 0
    /\ (pc = "scan" /\ next_pc = "scan") =>
          /\ LocationAt(start)[2] > 0
          /\ next_start = start + LocationAt(start)[2]
          /\ next_start <= Len(input_bytes)
    /\ (pc = "scan" /\ next_pc = "raised") =>
          /\ LocationAt(start)[2] > 0
          /\ next_start = start
    /\ (pc = "scan" /\ next_pc = "scanned") =>
          /\ next_start = start
          /\ start = Len(input_bytes)
    /\ pc # "scan" /\ pc # "new" => next_start = start

TileStep ==
    /\ ScannerStep(d_pc, d_start, d_pc', d_start')
    /\ ScannerStep(m_pc, m_start, m_pc', m_start')

\* C20: in both strategies the scanner yields one location per line in file
\* order: the first at offset 0, each next one at the offset where the one
\* before ends, every length positive, and the scan ends only at the file's
\* size, so that the last line is yielded also without a terminator.  Every
\* turn of the loop moves the offset forward and never past the file's size:
\* the scan takes no more turns than the file has bytes.
C20_LocationsTileFile == [][TileStep]_vars

\* Both scans ended at the end of a file of several lines whose last line has
\* no terminator.
C20_Witness ==
    /\ m_pc = "done" /\ d_pc = "scanned"
    /\ Len(InputLines) >= 3
    /\ input_bytes[Len(input_bytes)] # LF
    /\ m_start = Len(input_bytes) /\ d_start = Len(input_bytes)

=============================================================================
